---------------------------- MODULE Spec2Model ----------------------------
(***************************************************************************)
(* A model of go-pg/sharding: the time/shard/sequence identifier codec     *)
(* (IDGen, ShardIDGen) and the shard router (Cluster).                     *)
(*                                                                         *)
(* Machine integers are two's-complement words of WordBits bits (int64 in  *)
(* the source, scaled down here so that wrap-around is reachable).  A      *)
(* time.Time is the number of clock ticks since the Unix epoch, with       *)
(* TicksPerMs ticks in a millisecond (10^6 nanoseconds in the source).     *)
(***************************************************************************)
EXTENDS Integers, Sequences, FiniteSets, TLC

\* ------------------------------------------------------------------ bounds
WordBits == 5
TicksPerMs == 2
MsPerSec == 3

\* The most NextID calls made in one run.
MaxCalls == 2
\* The most NextID calls made one after another on one generator.
MaxSeqCalls == 3
\* The server handles that exist, the longest server list and the largest
\* shard count given to NewClusterWithGen.
NumHandles == 3
MaxDbs == 3
MaxShards == 4
\* The largest n given to ForEachNShards, and the most fn invocations the
\* server tasks of one cluster make in one fan-out.
MaxN == 2
MaxWork == 4
\* The bits of a byte of a UUID (8 in the source).
ByteBits == 2

VARIABLES
    gen,      \* the IDGen in use: a record built by NewIDGen
    call,     \* the arguments and the result of the current call
    prev,     \* the call completed before the current one
    sgens,    \* the ShardIDGen instances: index -> [arg, shard, seq]
    procs,    \* the goroutines inside NextID: [n, g, tm, seq] of each
    ids,      \* the ids NextID has returned, in order of completion
    cluster,  \* the Cluster, or the panic of its constructor
    tasks,    \* the goroutines ForEachDB started, one per entry of servers
    workers,  \* the goroutines ForEachNShards started and not yet ended
    errCh,    \* ForEachDB's errCh: the errors buffered in it
    wg,       \* ForEachDB's WaitGroup counter
    visits,   \* how many times fn was invoked on each handle or shard
    failed,   \* the handles or shards on which an invocation of fn returned an error
    firstFail, \* the error of the first invocation of fn that returned one
    subcl     \* the SubCluster, or the panic of Cluster.SubCluster

callVars == <<call, prev>>
genVars == <<sgens, procs, ids>>
clVars == <<cluster, subcl>>
failVars == <<failed, firstFail>>
fanVars == <<tasks, workers, errCh, wg, visits, failed, firstFail>>
vars ==
    <<gen, call, prev, sgens, procs, ids, cluster, tasks, workers, errCh, wg, visits,
      failed, firstFail, subcl>>

\* ------------------------------------------------- machine integers (Go)
RECURSIVE Pow2(_)
Pow2(n) ==
    IF n <= 0 THEN 1 ELSE 2 * Pow2(n - 1)

\* The number of values of a word, and the least and greatest signed word.
WordSize == Pow2(WordBits)
MinInt == -Pow2(WordBits - 1)
MaxInt == Pow2(WordBits - 1) - 1
Word == MinInt..MaxInt

\* The unsigned reading of a word: uint64(x).
ToUint(x) ==
    x % WordSize

\* The signed word an integer wraps to.
Wrap(x) ==
    ((x - MinInt) % WordSize) + MinInt

\* x << k on signed words; a shift count of the word size or more gives 0.
Shl(x, k) ==
    IF k >= WordBits THEN 0 ELSE Wrap(x * Pow2(k))

\* x >> k on signed words (arithmetic shift).
Sar(x, k) ==
    IF k >= WordBits THEN (IF x < 0 THEN -1 ELSE 0) ELSE x \div Pow2(k)

\* x / y of Go: the quotient truncated toward zero (y # 0).
GoDiv(x, y) ==
    LET ax == IF x < 0 THEN -x ELSE x
        ay == IF y < 0 THEN -y ELSE y
        q == ax \div ay
    IN  IF (x < 0) = (y < 0) THEN q ELSE -q

\* x % y of Go: the remainder has the sign of x (y # 0).
GoRem(x, y) ==
    x - y * GoDiv(x, y)

RECURSIVE BitsOr(_, _, _)
BitsOr(a, b, n) ==
    IF n = 0 THEN 0
    ELSE (IF a % 2 = 1 \/ b % 2 = 1 THEN 1 ELSE 0)
         + 2 * BitsOr(a \div 2, b \div 2, n - 1)

RECURSIVE BitsAnd(_, _, _)
BitsAnd(a, b, n) ==
    IF n = 0 THEN 0
    ELSE (IF a % 2 = 1 /\ b % 2 = 1 THEN 1 ELSE 0)
         + 2 * BitsAnd(a \div 2, b \div 2, n - 1)

\* x | y and x & y on signed words.
Or(x, y) ==
    Wrap(BitsOr(ToUint(x), ToUint(y), WordBits))

And(x, y) ==
    Wrap(BitsAnd(ToUint(x), ToUint(y), WordBits))

\* ---------------------------------------------------------------- time
\* tm.UnixNano(): the tick count as a signed word.
UnixNano(tm) ==
    Wrap(tm)

\* tm.UnixNano() / int64(time.Millisecond)
UnixMilli(tm) ==
    GoDiv(UnixNano(tm), TicksPerMs)

\* time.Unix(sec, nsec), with sec counted in milliseconds*MsPerSec here.
Unix(sec, nsec) ==
    sec * MsPerSec * TicksPerMs + nsec

\* The times a caller can pass: those whose tick count fits a word.
Times == Word

\* Epochs given to NewIDGen, in ticks: a millisecond and a half before the
\* Unix epoch, the Unix epoch, and one tick after it.
EpochTimes == {-TicksPerMs - 1, 0, 1}

\* ---------------------------------------------------------------- IDGen
\* NewIDGen: the record of the generator, or "panic".  timeBits and
\* epochTime are kept beside the code's fields for the claims to read.
NewIDGen(timeBits, shardBits, seqBits, epochTime) ==
    IF timeBits + shardBits + seqBits # WordBits THEN "panic"
    ELSE LET dur == Wrap(Shl(1, timeBits - 1) * TicksPerMs)
         IN  [shardBits |-> shardBits,
              seqBits   |-> seqBits,
              epoch     |-> UnixMilli(epochTime),
              minTime   |-> epochTime + Wrap(-dur),
              shardMask |-> Wrap(Shl(1, shardBits) - 1),
              seqMask   |-> Wrap(Shl(1, seqBits) - 1),
              timeBits  |-> timeBits,
              epochTime |-> epochTime]

\* 2^(timeBits-1) ms fits a time.Duration (timeBits <= 44 in the source).
DurFits(g) ==
    Pow2(g.timeBits - 1) * TicksPerMs <= MaxInt

NumShards(g) ==
    Wrap(g.shardMask + 1)

\* The mutant of MakeID: the sequence is reduced modulo seqMask.
MakeIDSeqOffByOne(g, tm, shard, seq) ==
    IF tm < g.minTime THEN MinInt
    ELSE LET id0 == Wrap(UnixMilli(tm) - g.epoch)
             id1 == Shl(id0, g.shardBits + g.seqBits)
             id2 == Or(id1, Shl(shard, g.seqBits))
         IN  Or(id2, IF g.seqMask = 0 THEN 0 ELSE GoRem(seq, g.seqMask))

\* The mutant of MakeID: the time field is shifted by seqBits only.
MakeIDShortShift(g, tm, shard, seq) ==
    IF tm < g.minTime THEN MinInt
    ELSE LET id0 == Wrap(UnixMilli(tm) - g.epoch)
             id1 == Shl(id0, g.seqBits)
             id2 == Or(id1, Shl(shard, g.seqBits))
         IN  Or(id2, GoRem(seq, Wrap(g.seqMask + 1)))

\* The mutant of MakeID: no test of tm against minTime.
MakeIDNoFloor(g, tm, shard, seq) ==
    LET id0 == Wrap(UnixMilli(tm) - g.epoch)
        id1 == Shl(id0, g.shardBits + g.seqBits)
        id2 == Or(id1, Shl(shard, g.seqBits))
    IN  Or(id2, GoRem(seq, Wrap(g.seqMask + 1)))

MakeID(g, tm, shard, seq) ==
    IF tm < g.minTime THEN MinInt
    ELSE LET id0 == Wrap(UnixMilli(tm) - g.epoch)
             id1 == Shl(id0, g.shardBits + g.seqBits)
             id2 == Or(id1, Shl(shard, g.seqBits))
         IN  Or(id2, GoRem(seq, Wrap(g.seqMask + 1)))

MinID(g, tm) ==
    MakeID(g, tm, 0, 0)

MaxID(g, tm) ==
    MakeID(g, tm, g.shardMask, g.seqMask)

\* SplitID: the returned tm (tmOut here), shardID and seqID.
SplitID(g, id) ==
    LET ms  == Wrap(Sar(id, g.shardBits + g.seqBits) + g.epoch)
        sec == GoDiv(ms, MsPerSec)
    IN  [tmOut   |-> Unix(sec, Wrap((ms - sec * MsPerSec) * TicksPerMs)),
         shardID |-> And(Sar(id, g.seqBits), g.shardMask),
         seqID   |-> And(id, g.seqMask)]

\* The bit layouts NewIDGen accepts that have a time field.
Layouts ==
    {l \in (1..WordBits) \X (0..WordBits) \X (0..WordBits) :
        l[1] + l[2] + l[3] = WordBits}

Gens ==
    {NewIDGen(l[1], l[2], l[3], e) : l \in Layouts, e \in EpochTimes}


\* --------------------------------------------------- the codec, call by call
NoCall == [op |-> "none"]

\* No Cluster has been made.
NoCluster == [state |-> "none"]

\* Cluster.SubCluster has not been called.
NoSubCluster == [state |-> "none"]

\* The nil error, and the error fn returns when it fails on a handle or on
\* a shard number.
NilErr == 0
Err(key) == key + 1

\* No ForEachDB, ForEachShard or ForEachNShards call has been made.
NoFanOut ==
    /\ tasks = <<>>
    /\ workers = {}
    /\ errCh = <<>>
    /\ wg = 0
    /\ visits = <<>>
    /\ failed = {}
    /\ firstFail = NilErr

\* No ShardIDGen has been made and no goroutine runs.
NoGenerators ==
    /\ sgens = <<>>
    /\ procs = {}
    /\ ids = <<>>

\* Arguments a caller may pass for shard and seq: the fields' ranges and one
\* value past either end.
ShardArgs(g) == {s \in Word : -1 <= s /\ s <= g.shardMask + 1}
SeqArgs(g) == {q \in Word : -1 <= q /\ q <= g.seqMask + 1}

InitCodec ==
    /\ gen \in Gens
    /\ \E tm \in Times, shard \in ShardArgs(gen), seq \in SeqArgs(gen) :
           call = [op |-> "args", tm |-> tm, shard |-> shard, seq |-> seq]
    /\ prev = NoCall
    /\ NoGenerators
    /\ cluster = NoCluster
    /\ subcl = NoSubCluster
    /\ NoFanOut

\* id := gen.MakeID(tm, shard, seq)
CallMakeID ==
    /\ call.op = "args"
    /\ call' = [op |-> "MakeID", tm |-> call.tm, shard |-> call.shard,
                seq |-> call.seq,
                id |-> MakeID(gen, call.tm, call.shard, call.seq)]
    /\ UNCHANGED <<gen, prev, genVars, clVars, fanVars>>

\* tm, shardID, seqID := gen.SplitID(id)
CallSplitID ==
    /\ call.op = "MakeID"
    /\ call' = [call EXCEPT !.op = "SplitID"] @@ SplitID(gen, call.id)
    /\ UNCHANGED <<gen, prev, genVars, clVars, fanVars>>

NextCodec ==
    \/ CallMakeID
    \/ CallSplitID

SpecCodec == InitCodec /\ [][NextCodec]_vars

\* ------------------------------------------------------------ C1
\* epoch - 2^(timeBits-1) ms, the minimum representable time.
MinRepresentableTime(g) ==
    g.epochTime - Pow2(g.timeBits - 1) * TicksPerMs

\* t truncated to the millisecond (time.Time.Truncate rounds down).
TruncMs(tm) ==
    (tm \div TicksPerMs) * TicksPerMs

\* The millisecond of tm is less than 2^(timeBits-1) ms after the epoch.
BelowMaxTime(g, tm) ==
    UnixMilli(tm) - g.epoch < Pow2(g.timeBits - 1)

InFieldRange(g, shard, seq) ==
    /\ 0 <= shard /\ shard < Pow2(g.shardBits)
    /\ 0 <= seq /\ seq < Pow2(g.seqBits)

\* C1 as stated: for every shard and sequence in range and every time
\* t >= minRepresentableTime, SplitID(MakeID(t, s, q)) returns s, q and t
\* truncated to the millisecond.
C1_AsStated ==
    (/\ call.op = "SplitID"
     /\ InFieldRange(gen, call.shard, call.seq)
     /\ call.tm >= MinRepresentableTime(gen))
    => (/\ call.shardID = call.shard
        /\ call.seqID = call.seq
        /\ call.tmOut = TruncMs(call.tm))

\* C1 amended: when 2^(timeBits-1) ms fits a Duration and t also lies below
\* the maximum time epoch + 2^(timeBits-1) ms, SplitID(MakeID(t, s, q))
\* returns s, q and the time whose millisecond count is UnixNano(t) / ms,
\* which is t truncated to the millisecond for t at or after the Unix epoch.
C1_RoundTrip ==
    (/\ call.op = "SplitID"
     /\ DurFits(gen)
     /\ InFieldRange(gen, call.shard, call.seq)
     /\ call.tm >= MinRepresentableTime(gen)
     /\ BelowMaxTime(gen, call.tm))
    => (/\ call.shardID = call.shard
        /\ call.seqID = call.seq
        /\ call.tmOut = UnixMilli(call.tm) * TicksPerMs
        /\ (call.tm >= 0 => call.tmOut = TruncMs(call.tm)))

\* A round trip of a non-zero shard and sequence at a time with a
\* sub-millisecond part, inside the representable range.
C1_Witness ==
    /\ call.op = "SplitID"
    /\ DurFits(gen)
    /\ InFieldRange(gen, call.shard, call.seq)
    /\ call.shard > 0 /\ call.seq > 0
    /\ call.tm >= MinRepresentableTime(gen)
    /\ BelowMaxTime(gen, call.tm)
    /\ call.tm > 0 /\ call.tm # TruncMs(call.tm)
    /\ call.id # 0
    /\ call.shardID = call.shard

\* ------------------------------------------- two encodes, one after another
\* The ends of the shard and sequence fields.
ShardEnds(g) == {0, g.shardMask}
SeqEnds(g) == {0, g.seqMask}

InitOrder ==
    /\ gen \in Gens
    /\ \E tm \in Times, shard \in ShardEnds(gen), seq \in SeqEnds(gen) :
           call = [op |-> "args", tm |-> tm, shard |-> shard, seq |-> seq]
    /\ prev = NoCall
    /\ NoGenerators
    /\ cluster = NoCluster
    /\ subcl = NoSubCluster
    /\ NoFanOut

\* A second gen.MakeID(tm, shard, seq), at a later time than the first.
CallMakeIDLater ==
    /\ call.op = "MakeID"
    /\ prev = NoCall
    /\ \E tm \in Times, shard \in ShardEnds(gen), seq \in SeqEnds(gen) :
           /\ call.tm < tm
           /\ call' = [op |-> "MakeID", tm |-> tm, shard |-> shard,
                       seq |-> seq, id |-> MakeID(gen, tm, shard, seq)]
    /\ prev' = call
    /\ UNCHANGED <<gen, genVars, clVars, fanVars>>

NextOrder ==
    \/ CallMakeID
    \/ CallMakeIDLater

SpecOrder == InitOrder /\ [][NextOrder]_vars

\* ------------------------------------------------------------ C4
TwoEncodes ==
    /\ prev.op = "MakeID"
    /\ call.op = "MakeID"
    /\ prev.tm < call.tm

InTimeRange(g, tm) ==
    /\ DurFits(g)
    /\ tm >= MinRepresentableTime(g)
    /\ BelowMaxTime(g, tm)

\* C4 as stated: for t1 < t2 in different milliseconds and any shard and
\* sequence values, encode(t1, s1, q1) < encode(t2, s2, q2).
C4_AsStated ==
    (TwoEncodes /\ TruncMs(prev.tm) # TruncMs(call.tm))
    => prev.id < call.id

\* C4 amended: for t1 < t2 that both lie between the minimum and the maximum
\* representable time and whose millisecond counts UnixNano / ms differ, and
\* any shard and sequence values inside their fields,
\* encode(t1, s1, q1) < encode(t2, s2, q2).
C4_TimeDominates ==
    (/\ TwoEncodes
     /\ InTimeRange(gen, prev.tm) /\ InTimeRange(gen, call.tm)
     /\ InFieldRange(gen, prev.shard, prev.seq)
     /\ InFieldRange(gen, call.shard, call.seq)
     /\ UnixMilli(prev.tm) # UnixMilli(call.tm))
    => prev.id < call.id

\* The earlier id carries the largest shard and sequence, the later one the
\* smallest, one millisecond apart, and the later id is still the larger.
C4_Witness ==
    /\ TwoEncodes
    /\ InTimeRange(gen, prev.tm) /\ InTimeRange(gen, call.tm)
    /\ UnixMilli(call.tm) = UnixMilli(prev.tm) + 1
    /\ prev.shard = gen.shardMask /\ prev.shard > 0 /\ call.shard = 0
    /\ prev.seq = gen.seqMask /\ prev.seq > 0 /\ call.seq = 0
    /\ prev.id < call.id

\* ------------------------------------------------------------ ShardIDGen
\* The mutant of NewShardIDGen: the shard number is dropped.
NewShardIDGenNoShard(shard, g) ==
    [arg |-> shard, shard |-> 0, seq |-> 0]

\* NewShardIDGen(shard, gen); arg remembers the argument for the claims.
NewShardIDGen(shard, g) ==
    [arg |-> shard, shard |-> GoRem(shard, NumShards(g)), seq |-> 0]

\* The mutant of AddInt64: the update of the counter is lost.
AddInt64LostUpdate(seq, delta) ==
    seq

\* atomic.AddInt64(&g.seq, delta): the new value, stored and returned in
\* one indivisible step.
AddInt64(seq, delta) ==
    Wrap(seq + delta)

\* The generators of this part: the default epoch, and a time field whose
\* half range fits a Duration.
GenGens == {g \in Gens : DurFits(g) /\ g.epochTime = 0}

\* Shard numbers given to NewShardIDGen.
BindArgs(g) == {a \in Word : a \in {-1, 0, g.shardMask, g.shardMask + 1}}

\* Timestamps given to NextID: just before minTime, minTime, and one
\* millisecond later.
GenTimes(g) ==
    {g.minTime - 1, g.minTime, g.minTime + TicksPerMs} \cap Times

\* The number of calls of NextID begun so far.
Started == Len(ids) + Cardinality(procs)

\* Two generators; which of them is called the first does not matter, so
\* the first is the one with the smaller argument.
InitGen ==
    /\ gen \in GenGens
    /\ call = NoCall
    /\ prev = NoCall
    /\ \E a, b \in BindArgs(gen) :
           /\ a <= b
           /\ sgens = <<NewShardIDGen(a, gen), NewShardIDGen(b, gen)>>
    /\ procs = {}
    /\ ids = <<>>
    /\ cluster = NoCluster
    /\ subcl = NoSubCluster
    /\ NoFanOut

\* NextID, first line, in a new goroutine:
\* seq := atomic.AddInt64(&g.seq, 1) - 1
StartNextID ==
    /\ Started < MaxCalls
    /\ \E i \in DOMAIN sgens, tm \in GenTimes(gen) :
           LET new == AddInt64(sgens[i].seq, 1)
           IN  /\ sgens' = [sgens EXCEPT ![i].seq = new]
               /\ procs' = procs \cup
                      {[n |-> Started + 1, g |-> i, tm |-> tm,
                        seq |-> Wrap(new - 1)]}
    /\ UNCHANGED <<gen, callVars, ids, clVars, fanVars>>

\* NextID, second line, in goroutine c:
\* return g.gen.MakeID(tm, g.shard, seq)
FinishNextID(c) ==
    /\ c \in procs
    /\ ids' = Append(ids,
          [n |-> c.n, g |-> c.g, tm |-> c.tm, seq |-> c.seq,
           id |-> MakeID(gen, c.tm, sgens[c.g].shard, c.seq)])
    /\ procs' = procs \ {c}
    /\ UNCHANGED <<gen, callVars, sgens, clVars, fanVars>>

NextGen ==
    \/ StartNextID
    \/ \E c \in procs : FinishNextID(c)

SpecGen == InitGen /\ [][NextGen]_vars

\* ------------------------------------------------------------ C2
\* The number of NextID calls begun on generator i.
CallsOn(i) ==
    Cardinality({k \in DOMAIN ids : ids[k].g = i})
    + Cardinality({c \in procs : c.g = i})

SeqTimes(g) ==
    {tm \in Times : tm = MinInt
                    \/ (g.minTime - TicksPerMs <= tm /\ tm <= g.minTime + 3 * TicksPerMs)}

\* One fresh ShardIDGen.
InitSeq ==
    /\ gen \in Gens
    /\ call = NoCall
    /\ prev = NoCall
    /\ \E a \in BindArgs(gen) : sgens = <<NewShardIDGen(a, gen)>>
    /\ procs = {}
    /\ ids = <<>>
    /\ cluster = NoCluster
    /\ subcl = NoSubCluster
    /\ NoFanOut

\* id := g.NextID(tm), from the call to the return with no other call of
\* NextID between them, at a time not before that of the call before it.
CallNextID ==
    /\ Len(ids) < MaxSeqCalls
    /\ \E tm \in SeqTimes(gen) :
         /\ ids # <<>> => ids[Len(ids)].tm <= tm
         /\ LET new == AddInt64(sgens[1].seq, 1)
                seq == Wrap(new - 1)
            IN  /\ sgens' = [sgens EXCEPT ![1].seq = new]
                /\ ids' = Append(ids,
                      [n |-> Len(ids) + 1, g |-> 1, tm |-> tm, seq |-> seq,
                       id |-> MakeID(gen, tm, sgens[1].shard, seq)])
    /\ UNCHANGED <<gen, callVars, procs, clVars, fanVars>>

NextSeq == CallNextID

SpecSeq == InitSeq /\ [][NextSeq]_vars

-----------------------------------------------------------------------------
\* ---------------------------------------------------------------- UUID
\* A UUID is a sequence of bytes: the bytes of the time word, the most
\* significant first (u[:8] in the source), then u[8], u[9], and one byte
\* that stands for u[10:]. The stored time unit is the microsecond there;
\* here the clock's unit of TicksPerMs ticks, MsPerSec of them in a second.
Bytes == 0..(Pow2(ByteBits) - 1)
\* The bits of the shard number that NewUUID keeps in u[8] (3 of 8 in the
\* source).
ShardHiBits == ByteBits - 1
TimeLen == (WordBits + ByteBits - 1) \div ByteBits
uuidLen == TimeLen + 3

\* tm.Unix()*1e6 + int64(tm.Nanosecond())/1e3
unixMicrosecond(tm) ==
    LET ticksPerSec == MsPerSec * TicksPerMs
    IN  Wrap(Wrap((tm \div ticksPerSec) * MsPerSec) + ((tm % ticksPerSec) \div TicksPerMs))

fromUnixMicrosecond(n) ==
    LET secs == GoDiv(n, MsPerSec)
    IN  Unix(secs, Wrap((n - secs * MsPerSec) * TicksPerMs))

\* binary.BigEndian.PutUint64 and binary.BigEndian.Uint64
PutUint64(x) ==
    [i \in 1..TimeLen |-> (x \div Pow2(ByteBits * (TimeLen - i))) % Pow2(ByteBits)]

RECURSIVE Uint64(_)
Uint64(b) ==
    IF b = <<>> THEN 0
    ELSE Uint64(SubSeq(b, 1, Len(b) - 1)) * Pow2(ByteBits) + b[Len(b)]

\* DefaultIdGen.NumShards(), and byte(x)
UUIDShards == Pow2(ByteBits + ShardHiBits)
ToByte(x) == x % Pow2(ByteBits)

\* NewUUID that leaves the random bits of u[8] under the shard bits.
NewUUIDNoClear(shardId, tm, rnd) ==
    LET sh == GoRem(shardId, UUIDShards)
    IN  PutUint64(ToUint(unixMicrosecond(tm)))
        \o <<BitsOr(rnd[1], ToByte(Sar(sh, ByteBits)), ByteBits), ToByte(sh), rnd[3]>>

\* NewUUID; rnd is what uuidRand.Read puts into u[8:].
NewUUID(shardId, tm, rnd) ==
    LET sh == GoRem(shardId, UUIDShards)
        u8 == rnd[1] - (rnd[1] % Pow2(ShardHiBits))
    IN  PutUint64(ToUint(unixMicrosecond(tm)))
        \o <<BitsOr(u8, ToByte(Sar(sh, ByteBits)), ByteBits), ToByte(sh), rnd[3]>>

\* UUID.Split
Split(u) ==
    [tm |-> fromUnixMicrosecond(Wrap(Uint64(SubSeq(u, 1, TimeLen)))),
     shardId |-> BitsOr(Shl(u[TimeLen + 1] % Pow2(ShardHiBits), ByteBits),
                        u[TimeLen + 2], WordBits)]

IsZero(u) == \A i \in 1..Len(u) : u[i] = 0

\* Text is a sequence of characters: a hexadecimal digit is its value, two
\* of them make a byte; '-' and the letters of NULL are numbers below zero.
HexBase == Pow2((ByteBits + 1) \div 2)
Hyphen == -1
Null == <<-2, -3, -4, -4>>
uuidHexLen == 2 * uuidLen + 4

\* The bytes before each '-': 4, 6, 8 and 10 of 16 in the source.
Breaks == <<TimeLen \div 2, (3 * TimeLen) \div 4, TimeLen, TimeLen + 2>>

\* The place of the first digit of byte i in the text, as AppendValue
\* writes it.
EncPos(i) == 2 * (i - 1) + Cardinality({k \in 1..4 : Breaks[k] < i}) + 1

\* UUID.String, by AppendValue(nil, 0)
String(u) ==
    IF IsZero(u) THEN Null
    ELSE [p \in 1..uuidHexLen |->
            IF \E i \in 1..uuidLen : EncPos(i) = p
            THEN u[CHOOSE i \in 1..uuidLen : EncPos(i) = p] \div HexBase
            ELSE IF \E i \in 1..uuidLen : EncPos(i) + 1 = p
            THEN u[CHOOSE i \in 1..uuidLen : EncPos(i) + 1 = p] % HexBase
            ELSE Hyphen]

\* ParseUUID reading the digits one after another, as if without '-'.
DecPosPacked(i) == 2 * (i - 1) + 1

\* The place of the first digit of byte i in the text, as ParseUUID reads
\* it.
DecPos(i) == 2 * (i - 1) + Cardinality({k \in 1..4 : Breaks[k] < i}) + 1

\* ParseUUID: the key and whether an error is returned. hex.Decode stops at
\* the first character that is no digit; the bytes from there on stay zero.
ParseUUID(b) ==
    IF Len(b) # uuidHexLen THEN [u |-> [i \in 1..uuidLen |-> 0], err |-> TRUE]
    ELSE LET IsDigit(c) == 0 <= c /\ c < HexBase
             bad == {i \in 1..uuidLen : ~IsDigit(b[DecPos(i)]) \/ ~IsDigit(b[DecPos(i) + 1])}
         IN  [u |-> [i \in 1..uuidLen |->
                        IF \E j \in bad : j <= i THEN 0
                        ELSE b[DecPos(i)] * HexBase + b[DecPos(i) + 1]],
              err |-> bad # {}]

\* Times given to NewUUID: around the Unix epoch, and around the least and
\* the greatest time whose count of stored units fits a word.
UUIDTimes ==
    LET near(t) == (t - 2 * TicksPerMs)..(t + 2 * TicksPerMs)
    IN  near(0) \cup near(MinInt * TicksPerMs) \cup near((MaxInt + 1) * TicksPerMs)

\* The keys of uuidLen bytes whose time bytes hold no more than a word.
Keys ==
    {u \in [1..uuidLen -> Bytes] : Uint64(SubSeq(u, 1, TimeLen)) < WordSize}

InitUUID ==
    /\ gen \in {g \in GenGens : g.timeBits = 1 /\ g.seqBits = 0}
    /\ \/ \E shard \in -1..UUIDShards, tm \in UUIDTimes :
             call = [op |-> "args", shard |-> shard, tm |-> tm]
       \/ \E u \in Keys : call = [op |-> "key", u |-> u]
    /\ prev = NoCall
    /\ NoGenerators
    /\ cluster = NoCluster
    /\ subcl = NoSubCluster
    /\ NoFanOut

\* u := NewUUID(shard, tm), the random source giving rnd
CallNewUUID ==
    /\ call.op = "args"
    /\ \E rnd \in [1..3 -> Bytes] :
         call' = [op |-> "NewUUID", shard |-> call.shard, tm |-> call.tm,
                  rnd |-> rnd, u |-> NewUUID(call.shard, call.tm, rnd)]
    /\ UNCHANGED <<gen, prev, genVars, clVars, fanVars>>

\* shardId, tm := u.Split()
CallSplit ==
    /\ call.op = "NewUUID"
    /\ call' = [call EXCEPT !.op = "Split"] @@ [out |-> Split(call.u)]
    /\ UNCHANGED <<gen, prev, genVars, clVars, fanVars>>

\* s := u.String()
CallString ==
    /\ call.op = "key"
    /\ call' = [op |-> "String", u |-> call.u, s |-> String(call.u)]
    /\ UNCHANGED <<gen, prev, genVars, clVars, fanVars>>

\* parsed, err := ParseUUID(s)
CallParseUUID ==
    /\ call.op = "String"
    /\ call' = [call EXCEPT !.op = "ParseUUID"] @@ [out |-> ParseUUID(call.s)]
    /\ UNCHANGED <<gen, prev, genVars, clVars, fanVars>>

NextUUID ==
    \/ CallNewUUID
    \/ CallSplit
    \/ CallString
    \/ CallParseUUID

SpecUUID == InitUUID /\ [][NextUUID]_vars

-----------------------------------------------------------------------------
\* Cluster: logical shards mapped onto server handles.

\* A *pg.DB handle is a number; nil is 0.
Nil == 0
Handles == 1..NumHandles

\* db.Options(): the options a handle was connected with. A handle derived
\* from another one with WithParam is a new handle that keeps the options
\* of the first: handles 1 and 2 are such a pair, every later handle
\* has options of its own.
Options(db) == IF db <= 2 THEN 1 ELSE db - 1

\* The generators clusters are built over: a time field of two bits, so
\* that the shard field takes every width up to WordBits - 2.
ClusterGens == {g \in GenGens : g.timeBits = 2}

\* The server lists and shard counts given to the constructor.
RECURSIVE SeqsUpTo(_, _)
SeqsUpTo(S, n) ==
    IF n = 0 THEN {<<>>}
    ELSE LET shorter == SeqsUpTo(S, n - 1)
         IN  shorter \cup {Append(q, x) : q \in {r \in shorter : Len(r) = n - 1}, x \in S}

DbLists == SeqsUpTo(Handles, MaxDbs)
ShardCounts == -1..MaxShards

\* The checks of NewClusterWithGen, in order: the panic message, or "".
CheckArgsNoDivisible(dbs, nshards, g) ==
    IF Len(dbs) = 0 THEN "at least one db is required"
    ELSE IF nshards = 0 THEN "at least on shard is required"
    ELSE IF Len(dbs) > NumShards(g) \/ nshards > NumShards(g) THEN "too many shards"
    ELSE IF nshards < Len(dbs)
         THEN "number of shards must be greater or equal number of dbs"
    ELSE ""

CheckArgs(dbs, nshards, g) ==
    IF Len(dbs) = 0 THEN "at least one db is required"
    ELSE IF nshards = 0 THEN "at least on shard is required"
    ELSE IF Len(dbs) > NumShards(g) \/ nshards > NumShards(g) THEN "too many shards"
    ELSE IF nshards < Len(dbs)
         THEN "number of shards must be greater or equal number of dbs"
    ELSE IF GoRem(nshards, Len(dbs)) # 0
         THEN "number of shards must be divideable by number of dbs"
    ELSE ""

\* init, first loop: the handles of dbs, each once, in order of first
\* appearance.
RECURSIVE UniqueDBs(_)
UniqueDBs(dbs) ==
    IF dbs = <<>> THEN <<>>
    ELSE LET front == UniqueDBs(SubSeq(dbs, 1, Len(dbs) - 1))
             db == dbs[Len(dbs)]
         IN  IF \E k \in 1..Len(front) : front[k] = db THEN front
             ELSE Append(front, db)

\* newShard: a handle derived from db with the shard's parameters; it keeps
\* the connections and the options of db.
newShard(db, id) == [shardID |-> id, db |-> db, opt |-> Options(db)]

\* init, second loop, with the index taken in the deduplicated list.
ShardInfoByServer(dbs, i) ==
    LET servers == UniqueDBs(dbs)
        dbInd == i % Len(servers)
    IN  [id |-> i, shard |-> newShard(servers[dbInd + 1], i), dbInd |-> dbInd]

\* init, second loop: the shardInfo of shard i (dbInd counts from 0).
ShardInfo(dbs, i) ==
    LET dbInd == GoRem(i, Len(dbs))
    IN  [id |-> i, shard |-> newShard(dbs[dbInd + 1], i), dbInd |-> dbInd]

NewClusterWithGen(dbs, nshards, g) ==
    LET msg == CheckArgs(dbs, nshards, g)
    IN  IF msg # "" THEN [state |-> "panic", msg |-> msg]
        ELSE [state |-> "ok",
              dbs |-> dbs,
              servers |-> UniqueDBs(dbs),
              shards |-> [k \in 1..nshards |-> ShardInfo(dbs, k - 1)],
              shardList |-> [k \in 1..nshards |-> ShardInfo(dbs, k - 1).shard]]

\* Cluster.DB: the index and handle of the server of the number's shard.
DB(cl, number) ==
    LET idx == ToUint(number) % Len(cl.shards)
        dbInd == cl.shards[idx + 1].dbInd
    IN  <<dbInd, cl.dbs[dbInd + 1]>>

\* Cluster.Shards, the loop from index k on (k counts from 1).
RECURSIVE ShardsFrom(_, _, _)
ShardsFrom(cl, db, k) ==
    IF k > Len(cl.shards) THEN <<>>
    ELSE IF cl.dbs[cl.shards[k].dbInd + 1] = db
         THEN <<cl.shards[k].shard>> \o ShardsFrom(cl, db, k + 1)
    ELSE ShardsFrom(cl, db, k + 1)

\* Cluster.Shards
Shards(cl, db) == IF db = Nil THEN cl.shardList ELSE ShardsFrom(cl, db, 1)

\* What a failed index expression leaves in place of a shard.
PanicShard == [shardID |-> -1, db |-> Nil, opt |-> 0]

\* Cluster.Shard with the signed remainder of cluster.go.
ShardSigned(cl, number) ==
    LET idx == GoRem(number, Len(cl.shards))
    IN  IF idx < 0 THEN PanicShard ELSE cl.shards[idx + 1].shard

\* Cluster.Shard
Shard(cl, number) ==
    LET idx == ToUint(number) % Len(cl.shards)
    IN  cl.shards[idx + 1].shard

\* Cluster.SplitShard reading the sequence field.
SplitShardBySeq(cl, g, id) == Shard(cl, SplitID(g, id).seqID)

\* Cluster.SplitShard
SplitShard(cl, g, id) == Shard(cl, SplitID(g, id).shardID)

\* The times, generator bindings and counter values SplitShard is tried
\* with: from one tick below minTime to one tick above the last time the
\* time field holds.
SplitTimes(g) ==
    {tm \in Times : /\ g.minTime - 1 <= tm
                    /\ tm <= g.epochTime + Pow2(g.timeBits - 1) * TicksPerMs}
SplitSeqs(g) == {0, g.seqMask, g.seqMask + 1}

\* db.Close() of a handle: it fails for the handles of bad, each with an
\* error of its own.
CloseErr(db, bad) == IF db \in bad THEN Err(db) ELSE NilErr

\* Close's loop from the i-th handle of list on: closed is the sequence of
\* handles db.Close() has been called on so far, firstErr the first error.
RECURSIVE CloseLoop(_, _, _, _, _)
CloseLoop(list, bad, i, firstErr, closed) ==
    IF i > Len(list) THEN [closed |-> closed, ret |-> firstErr]
    ELSE LET err == CloseErr(list[i], bad)
         IN  CloseLoop(list, bad, i + 1,
                       IF err # NilErr /\ firstErr = NilErr THEN err ELSE firstErr,
                       Append(closed, list[i]))

\* Close that walks the dbs the cluster was made of.
CloseDbs(cl, bad) == CloseLoop(cl.dbs, bad, 1, NilErr, <<>>)

\* Close: the calls of db.Close() it makes, in order, and what it returns.
Close(cl, bad) == CloseLoop(cl.servers, bad, 1, NilErr, <<>>)

InitCluster ==
    /\ gen \in ClusterGens
    /\ \E dbs \in DbLists, nshards \in ShardCounts :
         call = [op |-> "new", dbs |-> dbs, nshards |-> nshards]
    /\ prev = NoCall
    /\ NoGenerators
    /\ cluster = NoCluster
    /\ subcl = NoSubCluster
    /\ NoFanOut

CallNewClusterWithGen ==
    /\ call.op = "new"
    /\ cluster' = NewClusterWithGen(call.dbs, call.nshards, gen)
    /\ call' = [call EXCEPT !.op = "NewClusterWithGen"]
    /\ UNCHANGED <<gen, prev, genVars, fanVars, subcl>>

\* The cluster is built and no method has been called on it yet; prev keeps
\* the constructor's call.
Built == call.op = "NewClusterWithGen" /\ cluster.state = "ok"

CallDB ==
    /\ Built
    /\ \E number \in Word :
         call' = [op |-> "DB", number |-> number, out |-> DB(cluster, number)]
    /\ prev' = call
    /\ UNCHANGED <<gen, genVars, clVars, fanVars>>

CallShards ==
    /\ Built
    /\ \E db \in {Nil} \cup Handles :
         call' = [op |-> "Shards", db |-> db, out |-> Shards(cluster, db)]
    /\ prev' = call
    /\ UNCHANGED <<gen, genVars, clVars, fanVars>>

CallShard ==
    /\ Built
    /\ \E number \in Word :
         call' = [op |-> "Shard", number |-> number, out |-> Shard(cluster, number)]
    /\ prev' = call
    /\ UNCHANGED <<gen, genVars, clVars, fanVars>>

\* SplitShard of the id that a ShardIDGen made for shard s returns from
\* NextID(tm) when its counter stands at seq.
CallSplitShard ==
    /\ Built
    /\ \E s \in -1..Len(cluster.shards), tm \in SplitTimes(gen), seq \in SplitSeqs(gen) :
         LET sg == [NewShardIDGen(s, gen) EXCEPT !.seq = seq]
             id == MakeID(gen, tm, sg.shard, sg.seq)
         IN  call' = [op |-> "SplitShard", s |-> s, tm |-> tm, seq |-> seq,
                      id |-> id, out |-> SplitShard(cluster, gen, id)]
    /\ prev' = call
    /\ UNCHANGED <<gen, genVars, clVars, fanVars>>

\* Close of the cluster, the handles of bad failing to close.
CallClose ==
    /\ Built
    /\ \E bad \in SUBSET Handles :
         call' = [op |-> "Close", bad |-> bad, out |-> Close(cluster, bad)]
    /\ prev' = call
    /\ UNCHANGED <<gen, genVars, clVars, fanVars>>

NextCluster ==
    \/ CallNewClusterWithGen
    \/ CallDB
    \/ CallShards
    \/ CallShard
    \/ CallSplitShard
    \/ CallClose

SpecCluster == InitCluster /\ [][NextCluster]_vars

\* The constructor's arguments of the cluster a method was called on.
OnCluster(op) == call.op = op /\ prev.op = "NewClusterWithGen"
ShardCount == prev.nshards
IsShardNumber(i) == 0 <= i /\ i < ShardCount

\* C5: for a cluster with shardCount shards and a shard number s in
\* [0, shardCount), SplitShard of an id that a generator bound to s made at
\* an in-range time, at any value of its counter, returns the shard that
\* Shard(s) returns, the shard numbered s.
C5_SplitShardRoutesBack ==
    (/\ OnCluster("SplitShard")
     /\ IsShardNumber(call.s)
     /\ InTimeRange(gen, call.tm))
        => /\ call.out = Shard(cluster, call.s)
           /\ call.out.shardID = call.s

C5_Witness ==
    /\ OnCluster("SplitShard")
    /\ call.s = 2
    /\ ShardCount = 4
    /\ InTimeRange(gen, call.tm)
    /\ call.tm < 0
    /\ call.seq = gen.seqMask + 1
    /\ call.seq > 1
    /\ call.out.shardID = 2

\* The owner the assignment rule gives shard i, and the shard numbers it
\* gives a handle, both over the server list as the constructor got it.
Owner(i) == prev.dbs[(i % Len(prev.dbs)) + 1]
OwnedBy(db) == {i \in 0..(ShardCount - 1) : Owner(i) = db}
TimesListed(db) == Cardinality({k \in 1..Len(prev.dbs) : prev.dbs[k] = db})
Ascending(out) == \A k \in 2..Len(out) : out[k - 1].shardID < out[k].shardID

\* C6: for a valid (serverList, shardCount), shard i is owned by
\* serverList[i mod len(serverList)] of the list as given; Shards(h) for a
\* non-nil h returns in ascending order exactly the shards so owned by h,
\* k * shardCount / len(serverList) of them when h is listed k times;
\* Shards(nil) returns all shardCount shards in order.
C6_Ownership ==
    /\ (OnCluster("DB") /\ IsShardNumber(call.number))
          => call.out = <<call.number % Len(prev.dbs), Owner(call.number)>>
    /\ (OnCluster("Shards") /\ call.db # Nil)
          => /\ Ascending(call.out)
             /\ {call.out[k].shardID : k \in 1..Len(call.out)} = OwnedBy(call.db)
             /\ \A k \in 1..Len(call.out) : call.out[k].db = call.db
             /\ Len(call.out) * Len(prev.dbs) = TimesListed(call.db) * ShardCount
    /\ (OnCluster("Shards") /\ call.db = Nil)
          => /\ Len(call.out) = ShardCount
             /\ \A k \in 1..Len(call.out) :
                  /\ call.out[k].shardID = k - 1
                  /\ call.out[k].db = Owner(k - 1)

\* A handle listed twice in a list of three owns two of three shards.
C6_Witness ==
    /\ OnCluster("Shards")
    /\ Len(prev.dbs) = 3
    /\ TimesListed(call.db) = 2
    /\ prev.dbs[1] = prev.dbs[2]
    /\ Len(call.out) = 2
    /\ call.out[2].shardID = 1

IsPow2(n) == \E k \in 0..WordBits : n = Pow2(k)

\* C7 as stated: Shard(number) returns, for every number, the shard numbered
\* by the non-negative remainder number mod shardCount.
C7_AsStated ==
    OnCluster("Shard") => call.out.shardID = call.number % ShardCount

\* C7: Shard(number) returns a shard of the cluster for every number: the
\* one numbered number mod shardCount when number >= 0 or shardCount is a
\* power of two, and the one numbered (2^WordBits + number) mod shardCount for
\* any other negative number.
C7_ShardTotal ==
    OnCluster("Shard")
        => /\ IsShardNumber(call.out.shardID)
           /\ call.out = cluster.shardList[call.out.shardID + 1]
           /\ (call.number >= 0 \/ IsPow2(ShardCount))
                 => call.out.shardID = call.number % ShardCount
           /\ call.number < 0
                 => call.out.shardID = (WordSize + call.number) % ShardCount

C7_Witness ==
    /\ OnCluster("Shard")
    /\ call.number = -1
    /\ ShardCount = 3
    /\ call.out.shardID = (WordSize - 1) % 3
    /\ call.out.shardID # 2

ArgsRejected ==
    \/ Len(call.dbs) = 0
    \/ call.nshards = 0
    \/ call.nshards > NumShards(gen)
    \/ Len(call.dbs) > NumShards(gen)
    \/ call.nshards < Len(call.dbs)
    \/ call.nshards % Len(call.dbs) # 0

\* C8: construction fails if and only if the server list is empty, or
\* shardCount is 0, or shardCount or the list's length exceeds the codec's
\* number of shards, or shardCount is below the list's length, or is not a
\* multiple of it; otherwise the cluster has exactly shardCount shards,
\* numbered 0..shardCount-1.
C8_ConstructionFailsIff ==
    call.op = "NewClusterWithGen"
        => /\ cluster.state \in {"ok", "panic"}
           /\ cluster.state = "panic" <=> ArgsRejected
           /\ cluster.state = "ok"
                 => /\ Len(cluster.shards) = call.nshards
                    /\ \A k \in 1..call.nshards :
                         /\ cluster.shards[k].id = k - 1
                         /\ cluster.shards[k].shard.shardID = k - 1

\* Three shards on two servers: rejected by the last check alone.
C8_Witness ==
    /\ call.op = "NewClusterWithGen"
    /\ Len(call.dbs) = 2
    /\ call.nshards = 3
    /\ NumShards(gen) >= 4
    /\ cluster.state = "panic"

-----------------------------------------------------------------------------
\* ForEachDB, ForEachShard and ForEachNShards: goroutines, channels and
\* WaitGroups, one action per step that other goroutines can observe.

\* The handles ForEachDB ranges over.
TargetsAllDbs(cl) == cl.dbs

Targets(cl) == cl.servers

\* The negation of the loops' test shard.Options() != db.Options().
SameOptions(shard, db) == shard.opt = Options(db)

\* The loop taking every shard, whatever its options.
NextMatchAny(cl, db, i) == i

\* The loop over cl.shards from index i (counting from 0) up to the first
\* shard that passes the options test; Len(cl.shards) when none is left.
NextMatch(cl, db, i) ==
    LET left == {j \in i..(Len(cl.shards) - 1) : SameOptions(cl.shards[j + 1].shard, db)}
    IN  IF left = {} THEN Len(cl.shards)
        ELSE CHOOSE j \in left : \A m \in left : j <= m

\* The fn invocations the server tasks of the cluster make between them.
Work(cl) ==
    Cardinality({p \in (1..Len(cl.servers)) \X (1..Len(cl.shards)) :
                    SameOptions(cl.shards[p[2]].shard, cl.servers[p[1]])})

\* The clusters the fan-outs run on. Every shard number fits the generator.
\* Handle 1 is listed first, and options are numbered as they first appear in
\* the list (handles that share no options are interchangeable): with that
\* come the lists of one handle, of handles with the same options (1, 2) and
\* with different ones (1, 3), and the lists that repeat a handle.
FanGens == {g \in ClusterGens : g.seqBits = 0}
FanDbLists ==
    {dbs \in DbLists :
        /\ dbs # <<>>
        /\ dbs[1] = 1
        /\ \A k \in 2..Len(dbs) :
              \E m \in 1..(k - 1) : Options(dbs[m]) >= Options(dbs[k]) - 1}
FanClusters(g) ==
    {cl \in {NewClusterWithGen(dbs, nshards, g) : dbs \in FanDbLists, nshards \in 1..MaxShards} :
        cl.state = "ok" /\ Work(cl) <= MaxWork}

\* The goroutine ForEachDB starts for db: where it stands (pc), the loop
\* index i and firstErr of ForEachShard's closure, limit and errCh of
\* ForEachNShards' closure, err the value fn(db) returned.
NewTask(db, pc) ==
    [db |-> db, pc |-> pc, i |-> 0, firstErr |-> NilErr, err |-> NilErr,
     limit |-> 0, errCh |-> <<>>]

\* A non-blocking send of err on a channel of capacity 1, and a receive
\* with default.
TrySendLatest(ch, err) == <<err>>

TrySend(ch, err) == IF ch = <<>> THEN <<err>> ELSE ch

TryRecvDefault(ch) == NilErr

TryRecv(ch) == IF ch = <<>> THEN NilErr ELSE ch[1]

InitFanOut ==
    /\ gen \in FanGens
    /\ cluster \in FanClusters(gen)
    /\ call = [op |-> "NewClusterWithGen", dbs |-> cluster.dbs,
               nshards |-> Len(cluster.shards)]
    /\ prev = NoCall
    /\ NoGenerators
    /\ NoFanOut
    /\ subcl = NoSubCluster

\* ForEachDB up to wg.Wait: errCh made, wg.Add(len(servers)), one goroutine
\* per handle; pc is where each goroutine starts.
BeginFanOut(op, n, pc, keys) ==
    /\ call' = [op |-> op, n |-> n, pc |-> "wait", ret |-> NilErr]
    /\ tasks' = [k \in 1..Len(Targets(cluster)) |-> NewTask(Targets(cluster)[k], pc)]
    /\ workers' = {}
    /\ errCh' = <<>>
    /\ wg' = Len(Targets(cluster))
    /\ visits' = [key \in keys |-> 0]
    /\ failed' = {}
    /\ firstFail' = NilErr
    /\ UNCHANGED <<gen, genVars, clVars>>

\* A fan-out of the cluster begins; prev keeps the call before it.
StartFanOut(op, n, pc, keys) ==
    /\ Built
    /\ BeginFanOut(op, n, pc, keys)
    /\ prev' = call

ShardNumbers == 0..(Len(cluster.shards) - 1)

CallForEachDB == StartFanOut("ForEachDB", 0, "call", Handles)

CallForEachShard == StartFanOut("ForEachShard", 0, "loop", ShardNumbers)

CallForEachNShards ==
    \E n \in 0..MaxN : StartFanOut("ForEachNShards", n, "loop", ShardNumbers)

Waiting(op) == call.op = op /\ call.pc = "wait"
FanOuts == {"ForEachDB", "ForEachShard", "ForEachNShards", "SubCluster.ForEachShard"}
InFanOut == call.op \in FanOuts /\ call.pc = "wait"
At(k, pc) == k \in 1..Len(tasks) /\ tasks[k].pc = pc
\* Statements that only receive from limit or call wg.Done are taken together
\* with the step before them in their goroutine: they make no step of another
\* goroutine impossible, and nothing else reads what they change.

\* The end of the goroutine without its wg.Done after a nil result.
TaskReturnsNoDone(k, t, err) ==
    /\ tasks' = [tasks EXCEPT ![k] =
                    [t EXCEPT !.pc = IF err = NilErr THEN "done" ELSE "ret", !.err = err]]
    /\ wg' = wg

\* The end of ForEachDB's goroutine k once fn(db) has returned err, t being
\* the goroutine's record by then: with a nil err only the deferred wg.Done
\* is left, otherwise the send on errCh comes first.
TaskReturns(k, t, err) ==
    /\ tasks' = [tasks EXCEPT ![k] =
                    [t EXCEPT !.pc = IF err = NilErr THEN "done" ELSE "ret", !.err = err]]
    /\ wg' = IF err = NilErr THEN wg - 1 ELSE wg

\* An invocation of fn on key has returned err: what is remembered of it.
RecordReturn(key, err) ==
    /\ failed' = IF err = NilErr THEN failed ELSE failed \cup {key}
    /\ firstFail' = IF err # NilErr /\ firstFail = NilErr THEN err ELSE firstFail

\* ForEachDB's goroutine calls fn(db) ...
TaskCallFn(k) ==
    /\ Waiting("ForEachDB")
    /\ At(k, "call")
    /\ tasks' = [tasks EXCEPT ![k].pc = "running"]
    /\ visits' = [visits EXCEPT ![tasks[k].db] = @ + 1]
    /\ UNCHANGED <<gen, callVars, genVars, clVars, failVars, workers, errCh, wg>>

\* ... and fn(db) returns nil or an error.
TaskFnReturn(k) ==
    /\ Waiting("ForEachDB")
    /\ At(k, "running")
    /\ \E err \in {NilErr, Err(tasks[k].db)} :
         /\ TaskReturns(k, tasks[k], err)
         /\ RecordReturn(tasks[k].db, err)
    /\ UNCHANGED <<gen, callVars, genVars, clVars, workers, errCh, visits>>

\* ForEachShard's closure: the loop runs to the next shard with the options
\* of db and calls fn on it, or ends and returns firstErr.
ShardLoop(k) ==
    /\ Waiting("ForEachShard")
    /\ At(k, "loop")
    /\ LET j == NextMatch(cluster, tasks[k].db, tasks[k].i)
       IN  IF j = Len(cluster.shards)
           THEN /\ TaskReturns(k, [tasks[k] EXCEPT !.i = j, !.firstErr = NilErr],
                               tasks[k].firstErr)
                /\ UNCHANGED visits
           ELSE /\ tasks' = [tasks EXCEPT ![k].pc = "running", ![k].i = j]
                /\ visits' = [visits EXCEPT ![j] = @ + 1]
                /\ UNCHANGED wg
    /\ UNCHANGED <<gen, callVars, genVars, clVars, failVars, workers, errCh>>

\* fn(shard) returns in ForEachShard's closure: firstErr keeps the first
\* error, and the loop goes on.
ShardFnReturn(k) ==
    /\ Waiting("ForEachShard")
    /\ At(k, "running")
    /\ \E err \in {NilErr, Err(tasks[k].i)} :
         /\ tasks' = [tasks EXCEPT
                         ![k].pc = "loop",
                         ![k].i = @ + 1,
                         ![k].firstErr = IF err # NilErr /\ @ = NilErr THEN err ELSE @]
         /\ RecordReturn(tasks[k].i, err)
    /\ UNCHANGED <<gen, callVars, genVars, clVars, workers, errCh, wg, visits>>

\* limit <- struct{}{} going through with room for one more than cap(limit).
LimitSendOneMore(held, n) == held <= n

\* limit <- struct{}{}: the send goes through while fewer than cap(limit) = n
\* goroutines hold the channel; the only receives are those of the deferred
\* functions of the goroutines started after a send.
LimitSend(held, n) == held < n

\* ForEachNShards' closure: the loop runs to the next shard with the options
\* of db, sends on limit (blocking while n goroutines hold it), wg.Add(1) and
\* starts the goroutine; or the loop ends and the closure goes to wg.Wait.
NShardsLoop(k) ==
    /\ Waiting("ForEachNShards")
    /\ At(k, "loop")
    /\ LET j == NextMatch(cluster, tasks[k].db, tasks[k].i)
       IN  IF j = Len(cluster.shards)
           THEN /\ tasks' = [tasks EXCEPT ![k].pc = "wgwait", ![k].i = j]
                /\ UNCHANGED workers
           ELSE /\ LimitSend(tasks[k].limit, call.n)
                /\ tasks' = [tasks EXCEPT ![k].limit = @ + 1, ![k].i = j + 1]
                /\ workers' = workers \cup
                      {[t |-> k, shard |-> j, pc |-> "go", err |-> NilErr]}
    /\ UNCHANGED <<gen, callVars, genVars, clVars, failVars, errCh, wg, visits>>

\* ForEachNShards' closure: wg.Wait returns when its goroutines have ended,
\* then the select on the closure's errCh gives the value the closure returns.
NShardsWait(k) ==
    /\ Waiting("ForEachNShards")
    /\ At(k, "wgwait")
    /\ \A w \in workers : w.t # k
    /\ TaskReturns(k, [tasks[k] EXCEPT !.errCh = <<>>], TryRecv(tasks[k].errCh))
    /\ UNCHANGED <<gen, callVars, genVars, clVars, failVars, workers, errCh, visits>>

\* A goroutine of ForEachNShards calls fn(shard) ...
WorkerCallFn(w) ==
    /\ w.pc = "go"
    /\ workers' = (workers \ {w}) \cup {[w EXCEPT !.pc = "running"]}
    /\ visits' = [visits EXCEPT ![w.shard] = @ + 1]
    /\ UNCHANGED <<gen, callVars, genVars, clVars, failVars, tasks, errCh, wg>>

\* ... fn(shard) returns an error, to be sent on the closure's errCh, or it
\* returns nil and the deferred function receives from limit and calls
\* wg.Done: the goroutine ends ...
WorkerFnReturn(w) ==
    /\ w.pc = "running"
    /\ \E err \in {NilErr, Err(w.shard)} :
         /\ IF err = NilErr
            THEN /\ workers' = workers \ {w}
                 /\ tasks' = [tasks EXCEPT ![w.t].limit = @ - 1]
            ELSE /\ workers' = (workers \ {w}) \cup {[w EXCEPT !.pc = "send", !.err = err]}
                 /\ UNCHANGED tasks
         /\ RecordReturn(w.shard, err)
    /\ UNCHANGED <<gen, callVars, genVars, clVars, errCh, wg, visits>>

\* ... the error is sent on the closure's errCh unless the channel is full,
\* and the deferred function ends the goroutine.
WorkerSend(w) ==
    /\ w.pc = "send"
    /\ tasks' = [tasks EXCEPT ![w.t].errCh = TrySend(@, w.err), ![w.t].limit = @ - 1]
    /\ workers' = workers \ {w}
    /\ UNCHANGED <<gen, callVars, genVars, clVars, failVars, errCh, wg, visits>>

\* ForEachDB's goroutine: a non-nil result of fn(db) is sent on errCh unless
\* the channel is full, then the deferred wg.Done.
TaskSend(k) ==
    /\ InFanOut
    /\ At(k, "ret")
    /\ errCh' = TrySend(errCh, tasks[k].err)
    /\ tasks' = [tasks EXCEPT ![k].pc = "done", ![k].err = NilErr]
    /\ wg' = wg - 1
    /\ UNCHANGED <<gen, callVars, genVars, clVars, failVars, workers, visits>>

\* ForEachDB returning as soon as an error is in errCh.
ReturnOnFirstError ==
    /\ InFanOut
    /\ wg = 0 \/ errCh # <<>>
    /\ call' = [call EXCEPT !.pc = "returned", !.ret = TryRecv(errCh)]
    /\ errCh' = <<>>
    /\ UNCHANGED <<gen, prev, genVars, clVars, failVars, tasks, workers, wg, visits>>

\* ForEachDB: wg.Wait returns, the select gives the error of errCh or nil.
Return ==
    /\ InFanOut
    /\ wg = 0
    /\ call' = [call EXCEPT !.pc = "returned", !.ret = TryRecv(errCh)]
    /\ errCh' = <<>>
    /\ UNCHANGED <<gen, prev, genVars, clVars, failVars, tasks, workers, wg, visits>>

NextFanOut ==
    \/ CallForEachDB
    \/ CallForEachShard
    \/ CallForEachNShards
    \/ \E k \in 1..Len(tasks) :
         \/ TaskCallFn(k)
         \/ TaskFnReturn(k)
         \/ ShardLoop(k)
         \/ ShardFnReturn(k)
         \/ NShardsLoop(k)
         \/ NShardsWait(k)
         \/ TaskSend(k)
    \/ \E w \in workers :
         \/ WorkerCallFn(w)
         \/ WorkerFnReturn(w)
         \/ WorkerSend(w)
    \/ Return

SpecFanOut == InitFanOut /\ [][NextFanOut]_vars

\* ---------------------------------------------------------------------------
\* SubCluster

\* A failed construction of a sub-cluster: the run-time panic.
SubPanic(msg) == [state |-> "panic", msg |-> msg]

\* Cluster.SubCluster with the window starting at number % step.
SubClusterUnscaled(cl, number, size) ==
    LET total == Len(cl.shards)
        sz == IF size > total THEN total ELSE size
    IN  IF sz <= 0 THEN SubPanic("size")
        ELSE LET step == GoDiv(total, sz)
                 clusterId == ToUint(number) % step
             IN  [state |-> "ok",
                  shards |-> [i \in 1..sz |-> cl.shards[((clusterId + i - 1) % total) + 1]]]

\* Cluster.SubCluster: size clamped to the number of shards, step and
\* clusterId computed, the shardInfos clusterId..clusterId+size-1 of the
\* parent referenced in order. The parent's shards never change after init,
\* so a reference is modelled by the shardInfo it points to. A size of zero
\* divides by zero; a negative size divides by zero when step is zero
\* and otherwise fails in make.
SubCluster(cl, number, size) ==
    LET total == Len(cl.shards)
        sz == IF size > total THEN total ELSE size
    IN  IF sz = 0 THEN SubPanic("integer divide by zero")
        ELSE LET step == GoDiv(total, sz)
             IN  IF step = 0 THEN SubPanic("integer divide by zero")
                 ELSE IF sz < 0 THEN SubPanic("makeslice: len out of range")
                 ELSE LET clusterId == (ToUint(number) % step) * sz
                      IN  [state |-> "ok",
                           shards |-> [i \in 1..sz |-> cl.shards[clusterId + i]]]

\* SubCluster.Shard with the signed remainder.
SubClusterShardSigned(sc, number) ==
    LET idx == GoRem(number, Len(sc.shards))
    IN  IF idx < 0 THEN PanicShard ELSE sc.shards[idx + 1].shard

\* SubCluster.Shard
SubClusterShard(sc, number) ==
    LET idx == ToUint(number) % Len(sc.shards)
    IN  sc.shards[idx + 1].shard

\* SubCluster.SplitShard reading the sequence field.
SubClusterSplitShardBySeq(sc, g, id) == SubClusterShard(sc, SplitID(g, id).seqID)

\* SubCluster.SplitShard
SubClusterSplitShard(sc, g, id) == SubClusterShard(sc, SplitID(g, id).shardID)

\* The selectors and sizes SubCluster is called with.
SubNumbers == {MinInt, -1} \cup 0..(2 * MaxShards)
SubSizes == -1..(MaxShards + 1)

CallSubCluster ==
    /\ Built
    /\ \E number \in SubNumbers, size \in SubSizes :
         /\ subcl' = SubCluster(cluster, number, size)
         /\ call' = [op |-> "SubCluster", number |-> number, size |-> size]
    /\ prev' = call
    /\ UNCHANGED <<gen, genVars, cluster, fanVars>>

\* A sub-cluster is made and no method has been called on it yet; prev keeps
\* the call of the parent's constructor through the calls on the sub-cluster.
SubBuilt == call.op = "SubCluster" /\ subcl.state = "ok"

CallSubClusterShard ==
    /\ SubBuilt
    /\ \E number \in Word :
         call' = [op |-> "SubCluster.Shard", number |-> number,
                  out |-> SubClusterShard(subcl, number)]
    /\ UNCHANGED <<gen, prev, genVars, clVars, fanVars>>

\* SplitShard on the sub-cluster, of the id that a ShardIDGen made for shard
\* s returns from NextID(tm) when its counter stands at seq.
CallSubClusterSplitShard ==
    /\ SubBuilt
    /\ \E s \in -1..Len(cluster.shards), tm \in {gen.minTime, gen.epochTime},
          seq \in SplitSeqs(gen) :
         LET sg == [NewShardIDGen(s, gen) EXCEPT !.seq = seq]
             id == MakeID(gen, tm, sg.shard, sg.seq)
         IN  call' = [op |-> "SubCluster.SplitShard", s |-> s, tm |-> tm, seq |-> seq,
                      id |-> id, out |-> SubClusterSplitShard(subcl, gen, id)]
    /\ UNCHANGED <<gen, prev, genVars, clVars, fanVars>>

\* SubCluster.ForEachShard: ForEachDB of the parent, up to wg.Wait, with the
\* sub-cluster's closure; visits counts the invocations per shard id of the
\* parent.
CallSubForEachShard ==
    /\ SubBuilt
    /\ BeginFanOut("SubCluster.ForEachShard", 0, "loop", ShardNumbers)
    /\ UNCHANGED prev

\* SubCluster.ForEachShard's closure: the loop runs over the sub-cluster's
\* shards to the next one with the options of db and calls fn on it, or ends
\* and returns firstErr.
SubShardLoop(k) ==
    /\ Waiting("SubCluster.ForEachShard")
    /\ At(k, "loop")
    /\ LET j == NextMatch(subcl, tasks[k].db, tasks[k].i)
       IN  IF j = Len(subcl.shards)
           THEN /\ TaskReturns(k, [tasks[k] EXCEPT !.i = j, !.firstErr = NilErr],
                               tasks[k].firstErr)
                /\ UNCHANGED visits
           ELSE /\ tasks' = [tasks EXCEPT ![k].pc = "running", ![k].i = j]
                /\ visits' = [visits EXCEPT ![subcl.shards[j + 1].id] = @ + 1]
                /\ UNCHANGED wg
    /\ UNCHANGED <<gen, callVars, genVars, clVars, failVars, workers, errCh>>

\* fn(shard) returns in SubCluster.ForEachShard's closure.
SubShardFnReturn(k) ==
    /\ Waiting("SubCluster.ForEachShard")
    /\ At(k, "running")
    /\ LET id == subcl.shards[tasks[k].i + 1].id
       IN  \E err \in {NilErr, Err(id)} :
             /\ tasks' = [tasks EXCEPT
                             ![k].pc = "loop",
                             ![k].i = @ + 1,
                             ![k].firstErr = IF err # NilErr /\ @ = NilErr THEN err ELSE @]
             /\ RecordReturn(id, err)
    /\ UNCHANGED <<gen, callVars, genVars, clVars, workers, errCh, wg, visits>>

NextSubCluster ==
    \/ CallSubCluster
    \/ CallSubClusterShard
    \/ CallSubClusterSplitShard
    \/ CallSubForEachShard
    \/ \E k \in 1..Len(tasks) :
         \/ SubShardLoop(k)
         \/ SubShardFnReturn(k)
         \/ TaskSend(k)
    \/ Return

SpecSubCluster == InitFanOut /\ [][NextSubCluster]_vars

Listed(db) == \E k \in 1..Len(prev.dbs) : prev.dbs[k] = db
Returned(op) == call.op = op /\ call.pc = "returned"

\* C9: one call of ForEachDB never invokes the callback twice for a handle
\* nor at all for a handle that is not in the cluster, and when it returns it
\* has invoked it exactly once for each distinct handle of the server list,
\* whether or not the list repeats handles.
C9_OncePerHandle ==
    call.op = "ForEachDB"
        => \A db \in Handles :
              /\ visits[db] <= 1
              /\ ~Listed(db) => visits[db] = 0
              /\ (call.pc = "returned" /\ Listed(db)) => visits[db] = 1

\* A list of three entries for two handles.
C9_Witness ==
    /\ Returned("ForEachDB")
    /\ Len(prev.dbs) = 3
    /\ Len(cluster.servers) = 2
    /\ \A db \in Handles : visits[db] = IF Listed(db) THEN 1 ELSE 0

\* C10 as stated: a call of ForEachShard, or of ForEachNShards with n >= 1,
\* that has returned has invoked fn exactly once for each shard of the
\* cluster, for every valid server list.
C10_AsStated ==
    (Returned("ForEachShard") \/ (Returned("ForEachNShards") /\ call.n >= 1))
        => \A i \in ShardNumbers : visits[i] = 1

\* The invocations of fn that have started and not returned: on shard i,
\* and started by the goroutine of ForEachDB for the k-th server.
Running == {w \in workers : w.pc = "running"}
InFlightOn(i) ==
    Cardinality({k \in 1..Len(tasks) : tasks[k].pc = "running" /\ tasks[k].i = i})
        + Cardinality({w \in Running : w.shard = i})
AnyReturned == call.op \in FanOuts /\ call.pc = "returned"

\* C11: when ForEachShard or ForEachNShards returns, fn has been invoked on
\* every shard of the cluster and every invocation has returned, whether or
\* not some of them returned errors: no goroutine is left running or waiting.
C11_NothingCancelled ==
    (Returned("ForEachShard") \/ Returned("ForEachNShards"))
        => /\ \A i \in ShardNumbers : visits[i] >= 1 /\ InFlightOn(i) = 0
           /\ workers = {}
           /\ \A k \in 1..Len(tasks) : tasks[k].pc = "done"

\* Three shards, fn failed on the first one and not on the last.
C11_Witness ==
    /\ Returned("ForEachNShards")
    /\ Len(cluster.shards) = 3
    /\ 0 \in failed
    /\ 2 \notin failed
    /\ \A i \in ShardNumbers : visits[i] = 1

\* C12: ForEachDB, ForEachShard and ForEachNShards return a non-nil error if
\* and only if some invocation of fn returned an error, and the error
\* returned is the error of one of those invocations.
C12_ErrorIffFailed ==
    AnyReturned
        => /\ call.ret # NilErr <=> failed # {}
           /\ call.ret # NilErr => \E key \in failed : call.ret = Err(key)

\* Two invocations failed, one error came back.
C12_Witness ==
    /\ Returned("ForEachNShards")
    /\ Cardinality(failed) = 2
    /\ call.ret = Err(1)

\* The server that owns shard i.
OwnerOf(i) == cluster.dbs[cluster.shards[i + 1].dbInd + 1]

\* C13 as stated: during ForEachNShards(n, fn) with n >= 1, at most n
\* invocations of fn are in flight on the shards of any one server.
C13_AsStated ==
    (Waiting("ForEachNShards") /\ call.n >= 1)
        => \A db \in Handles :
              Cardinality({w \in Running : OwnerOf(w.shard) = db}) <= call.n

\* The fan-outs when every goroutine that can take a step takes one in the
\* end: the scheduler runs every runnable goroutine, and every invocation of
\* fn returns. The clusters are those of at most MaxN invocations of fn.
InitFanOutLive ==
    /\ InitFanOut
    /\ Work(cluster) <= MaxN

SpecFanOutLive == InitFanOutLive /\ [][NextFanOut]_vars /\ WF_vars(NextFanOut)

\* C14: provided every invocation of fn returns, every call of ForEachDB,
\* ForEachShard and ForEachNShards(n, fn) with n >= 1 returns in the end.
C14_EventuallyReturns ==
    (InFanOut /\ (call.op = "ForEachNShards" => call.n >= 1)) ~> AnyReturned

\* ForEachNShards(1, fn) has returned after fn failed on two shards of one
\* server.
C14_Witness ==
    /\ Returned("ForEachNShards")
    /\ call.n = 1
    /\ Len(cluster.servers) = 1
    /\ Cardinality(failed) = 2
    /\ call.ret # NilErr

\* C15 as stated: when several invocations of fn fail during one fan-out,
\* the error returned is that of the failing invocation that returned first.
C15_AsStated ==
    (AnyReturned /\ Cardinality(failed) >= 2) => call.ret = firstFail

\* C15: of the errors of one fan-out, the one returned is the one sent first
\* on ForEachDB's errCh, and every later one is dropped: an error in errCh
\* stays there until ForEachDB returns it, and likewise an error in the errCh
\* of a ForEachNShards closure stays until the closure returns it and the
\* firstErr of a ForEachShard closure until the closure returns it.
C15_FirstSentSurfaced ==
    [][InFanOut =>
        /\ errCh # <<>> =>
              IF call'.pc = "returned" THEN call'.ret = errCh[1] ELSE errCh' = errCh
        /\ \A k \in 1..Len(tasks) :
              /\ tasks[k].errCh # <<>> =>
                    \/ tasks'[k].errCh = tasks[k].errCh
                    \/ tasks'[k].errCh = <<>> /\ tasks'[k].err = tasks[k].errCh[1]
              /\ tasks[k].firstErr # NilErr =>
                    \/ tasks'[k].firstErr = tasks[k].firstErr
                    \/ tasks'[k].firstErr = NilErr /\ tasks'[k].err = tasks[k].firstErr
    ]_vars

\* Two invocations failed and the error returned is not that of the one that
\* returned first.
C15_Witness ==
    /\ AnyReturned
    /\ Cardinality(failed) = 2
    /\ call.ret # NilErr
    /\ call.ret # firstFail


\* The position of the first appearance of db in the list dbs.
FirstSeen(dbs, db) == CHOOSE i \in 1..Len(dbs) : dbs[i] = db /\ \A j \in 1..(i - 1) : dbs[j] # db
TimesClosed(db) == Cardinality({i \in 1..Len(call.out.closed) : call.out.closed[i] = db})
FailedCloses == {i \in 1..Len(call.out.closed) : call.out.closed[i] \in call.bad}

\* C16: one call of Close calls close on each distinct handle of the server
\* list exactly once and on no other handle, in the order of the handles'
\* first appearance in the list; a failure stops nothing, and Close returns
\* the error of the first failing close in that order, nil when none fails.
C16_CloseEachOnce ==
    OnCluster("Close") =>
        LET closed == call.out.closed
        IN  /\ \A db \in Handles : TimesClosed(db) = IF Listed(db) THEN 1 ELSE 0
            /\ \A i, j \in 1..Len(closed) :
                 i < j => FirstSeen(prev.dbs, closed[i]) < FirstSeen(prev.dbs, closed[j])
            /\ call.out.ret = IF FailedCloses = {} THEN NilErr
                              ELSE Err(closed[CHOOSE i \in FailedCloses :
                                                \A j \in FailedCloses : i <= j])

\* A handle listed twice, two distinct handles, both failing to close.
C16_Witness ==
    /\ OnCluster("Close")
    /\ Len(prev.dbs) = 3
    /\ Len(call.out.closed) = 2
    /\ Cardinality(FailedCloses) = 2
    /\ call.out.ret = Err(call.out.closed[1])
    /\ call.out.closed[1] > call.out.closed[2]

\* The sub-cluster a call of SubCluster has just returned, and the numbers
\* the claims name: the parent's shard count, the clamped size, the step.
OnSubCluster(op) == call.op = op /\ subcl.state = "ok"
TotalShards == Len(cluster.shards)
Clamped(size) == IF size > TotalShards THEN TotalShards ELSE size
Step(size) == TotalShards \div Clamped(size)
SubIds(sc) == {sc.shards[i].id : i \in 1..Len(sc.shards)}

\* C17: for a selector k >= 0 and a size >= 1, SubCluster(k, size) holds
\* exactly the shards numbered w .. w + size' - 1 of the parent, in the
\* parent's order, with size' = min(size, totalShards),
\* step = totalShards / size' and w = (k mod step) * size'; the result is a
\* function of the parent, k and size alone.
C17_ContiguousWindow ==
    (call.op = "SubCluster" /\ call.number >= 0 /\ call.size >= 1) =>
        LET w == (call.number % Step(call.size)) * Clamped(call.size)
        IN  /\ subcl.state = "ok"
            /\ Len(subcl.shards) = Clamped(call.size)
            /\ \A i \in 1..Len(subcl.shards) :
                 /\ subcl.shards[i] = cluster.shards[w + i]
                 /\ subcl.shards[i].id = w + i - 1
            /\ subcl = SubCluster(cluster, call.number, call.size)

\* Selector 3 and size 2 on four shards wrap to the second window.
C17_Witness ==
    /\ call.op = "SubCluster"
    /\ TotalShards = 4
    /\ call.number = 3
    /\ call.size = 2
    /\ subcl.state = "ok"
    /\ SubIds(subcl) = {2, 3}

\* C18 as stated: SubCluster.Shard(number) returns, for every number, the
\* shard at index number mod size of the sub-cluster's slice.
C18_AsStated ==
    OnSubCluster("SubCluster.Shard")
        => call.out = subcl.shards[(call.number % Len(subcl.shards)) + 1].shard

\* C18: SubCluster.Shard(number) returns a member of the sub-cluster for
\* every number: the one at index number mod size when number >= 0 or size
\* is a power of two, so that 0..size-1 reach the members in slice order,
\* and the one at index (2^WordBits + number) mod size for any other
\* negative number.
C18_SubShardTotal ==
    OnSubCluster("SubCluster.Shard") =>
        LET size == Len(subcl.shards)
        IN  /\ \E i \in 1..size : call.out = subcl.shards[i].shard
            /\ call.out.shardID \in SubIds(subcl)
            /\ (call.number >= 0 \/ IsPow2(size))
                  => call.out = subcl.shards[(call.number % size) + 1].shard
            /\ call.number \in 0..(size - 1)
                  => call.out = subcl.shards[call.number + 1].shard
            /\ call.number < 0
                  => call.out = subcl.shards[((WordSize + call.number) % size) + 1].shard

C18_Witness ==
    /\ OnSubCluster("SubCluster.Shard")
    /\ call.number = -1
    /\ Len(subcl.shards) = 3
    /\ call.out = subcl.shards[((WordSize - 1) % 3) + 1].shard
    /\ call.out # subcl.shards[3].shard

\* C19 as stated: for every size in 1..totalShards the sub-clusters of the
\* selectors 0..step-1 are pairwise disjoint and every shard of the parent
\* is in one of them.
C19_AsStated ==
    (call.op = "SubCluster" /\ call.size \in 1..TotalShards) =>
        \A id \in ShardNumbers :
            Cardinality({k \in 0..(Step(call.size) - 1) :
                            id \in SubIds(SubCluster(cluster, k, call.size))}) = 1

\* The servers of a set of shard numbers, and the shards fn was called on.
ServersOf(S) == {OwnerOf(id) : id \in S}
Visited == {id \in ShardNumbers : visits[id] >= 1}
DistinctServers ==
    \A a, b \in 1..Len(cluster.dbs) :
        a # b => Options(cluster.dbs[a]) # Options(cluster.dbs[b])
Min(a, b) == IF a < b THEN a ELSE b

\* C20: on a cluster over M pairwise distinct servers, a returned
\* SubCluster.ForEachShard has called fn exactly once for every shard of the
\* sub-cluster and for no other shard, and the shards it called fn for lie on
\* exactly min(M, size) distinct servers.
C20_SubFanOutOnce ==
    (Returned("SubCluster.ForEachShard") /\ DistinctServers) =>
        /\ \A id \in ShardNumbers :
             visits[id] = IF id \in SubIds(subcl) THEN 1 ELSE 0
        /\ Cardinality(ServersOf(Visited))
              = Min(Len(cluster.dbs), Len(subcl.shards))

\* Two servers, four shards, the window of shards 2 and 3.
C20_Witness ==
    /\ Returned("SubCluster.ForEachShard")
    /\ DistinctServers
    /\ Len(cluster.dbs) = 2
    /\ TotalShards = 4
    /\ SubIds(subcl) = {2, 3}
    /\ Visited = {2, 3}
    /\ Cardinality(ServersOf(Visited)) = 2

\* The calls of NextID that carry the millisecond of timestamp tm.
CallsInMs(tm) == {k \in DOMAIN ids : UnixMilli(ids[k].tm) = UnixMilli(tm)}

\* C21 as stated, for a generator bound to a shard of [0, numShards):
\* successive calls of NextID with non-decreasing in-range timestamps, no
\* more than seqMask+1 of them in any one millisecond, return strictly
\* increasing ids.
C21_AsStated ==
    (/\ 0 <= sgens[1].arg /\ sgens[1].arg < Pow2(gen.shardBits)
     /\ \A k \in DOMAIN ids : InTimeRange(gen, ids[k].tm)
     /\ \A k \in DOMAIN ids : Cardinality(CallsInMs(ids[k].tm)) <= gen.seqMask + 1)
    => \A k \in 1..(Len(ids) - 1) : ids[k].id < ids[k + 1].id

\* The generators like the default one: 2^(timeBits-1) ms fits a Duration
\* and the epoch is a whole number of milliseconds, not before 1970.
LikeDefault(g) ==
    DurFits(g) /\ g.epochTime >= 0 /\ g.epochTime % TicksPerMs = 0

\* C22: NextID returns the minimum word for every time before
\* minRepresentableTime = epoch - 2^(timeBits-1) ms, whatever the shard of
\* the generator and the value of its counter; and the first id of a
\* fresh generator of shard 0, in a layout like the default one, at
\* minRepresentableTime + k ms (k >= 0, below the maximum time) is
\* MinInt + k * 2^(shardBits+seqBits).
C22_FloorAndFirstIds ==
    /\ \A n \in DOMAIN ids :
         ids[n].tm < MinRepresentableTime(gen) => ids[n].id = MinInt
    /\ (ids # <<>> /\ LikeDefault(gen) /\ sgens[1].arg = 0)
          => \A k \in 0..MaxInt :
                (/\ ids[1].tm = MinRepresentableTime(gen) + k * TicksPerMs
                 /\ BelowMaxTime(gen, ids[1].tm))
                => ids[1].id = MinInt + k * Pow2(gen.shardBits + gen.seqBits)

\* A generator bound to the largest shard is called twice one tick before
\* the minimum time: both ids are the minimum word, the second with the
\* counter at 1.
C22_Witness ==
    /\ LikeDefault(gen)
    /\ gen.shardBits > 0 /\ gen.seqBits > 0
    /\ sgens[1].arg = gen.shardMask
    /\ Len(ids) = 2
    /\ ids[1].tm = MinRepresentableTime(gen) - 1
    /\ ids[1].id = MinInt
    /\ ids[2].tm = MinRepresentableTime(gen) - 1
    /\ ids[2].seq = 1
    /\ ids[2].id = MinInt

\* C23 as stated: an id encoded at an in-range time t with a shard of
\* [0, 2^shardBits) and any sequence argument lies between MinID(t) and
\* MaxID(t).
C23_AsStated ==
    (/\ call.op = "MakeID"
     /\ InTimeRange(gen, call.tm)
     /\ 0 <= call.shard /\ call.shard < Pow2(gen.shardBits))
    => /\ MinID(gen, call.tm) <= call.id
       /\ call.id <= MaxID(gen, call.tm)

\* C26 as stated: for every in-range time and every shard and seq argument
\* MakeID returns (ms - epoch) << (shardBits+seqBits), or-ed with
\* (shard & shardMask) << seqBits and with seq & seqMask, so that the time
\* field of the result is that of the time alone.
C26_AsStated ==
    (call.op = "MakeID" /\ InTimeRange(gen, call.tm))
    => /\ call.id =
            Or(Or(Shl(Wrap(UnixMilli(call.tm) - gen.epoch), gen.shardBits + gen.seqBits),
                  Shl(And(call.shard, gen.shardMask), gen.seqBits)),
               And(call.seq, gen.seqMask))
       /\ Sar(call.id, gen.shardBits + gen.seqBits) = Wrap(UnixMilli(call.tm) - gen.epoch)

\* The count of stored time units of tm fits a word (a microsecond count
\* that fits int64 in the source).
FitsUUID(tm) == (tm \div TicksPerMs) \in Word

\* C24 as stated: for every shard of [0, numShards), every time and every
\* outcome of the random source, Split(NewUUID(shard, t)) returns shard and
\* t truncated to the stored unit.
C24_AsStated ==
    (call.op = "Split" /\ 0 <= call.shard /\ call.shard < UUIDShards)
    => /\ call.out.shardId = call.shard
       /\ call.out.tm = TruncMs(call.tm)

\* C24: for every shard of [0, numShards), every outcome of the random
\* source and every time whose count of stored units fits a word,
\* Split(NewUUID(shard, t)) returns shard and t truncated to the stored
\* unit; the shard is returned for every time.
C24_SplitRoundTrip ==
    (call.op = "Split" /\ 0 <= call.shard /\ call.shard < UUIDShards)
    => /\ call.out.shardId = call.shard
       /\ FitsUUID(call.tm) => call.out.tm = TruncMs(call.tm)

\* The random source gives all bits set, the time is before 1970 and has a
\* part below the stored unit, the shard has bits in both of its bytes.
C24_Witness ==
    /\ call.op = "Split"
    /\ call.shard = UUIDShards - 1
    /\ \A i \in 1..3 : call.rnd[i] = Pow2(ByteBits) - 1
    /\ call.tm < 0 /\ call.tm % TicksPerMs # 0
    /\ FitsUUID(call.tm)
    /\ call.out.shardId = call.shard
    /\ call.out.tm = TruncMs(call.tm)

InFlightOnServer(db) ==
    Cardinality({k \in 1..Len(tasks) : tasks[k].pc = "running" /\ OwnerOf(tasks[k].i) = db})
        + Cardinality({w \in Running : OwnerOf(w.shard) = db})

\* C27 as stated, the part on concurrency: during ForEachShard and during
\* ForEachNShards(1) at most one invocation of fn is in flight per server.
C27_AsStated ==
    (Waiting("ForEachShard") \/ (Waiting("ForEachNShards") /\ call.n = 1))
    => \A db \in Handles : InFlightOnServer(db) <= 1

\* Shard number i is one of the shards Cluster.Shards(db) returns.
InShardsOf(i, db) ==
    \E n \in 1..Len(Shards(cluster, db)) : Shards(cluster, db)[n] = cluster.shards[i + 1].shard

\* C28 as stated: the task of a unique server d of ForEachShard and of
\* ForEachNShards invokes fn only on shards that Shards(d) returns, also
\* when two handles of the server list share their options.
C28_AsStated ==
    (Waiting("ForEachShard") \/ Waiting("ForEachNShards")) =>
        /\ \A k \in 1..Len(tasks) :
             tasks[k].pc = "running" => InShardsOf(tasks[k].i, tasks[k].db)
        /\ \A w \in Running : InShardsOf(w.shard, tasks[w.t].db)

\* C29: for a shard number s that belongs to the sub-cluster, Shard(s) of
\* the sub-cluster is the shard numbered s; and SplitShard(id) of the
\* sub-cluster, for an id whose shard field is the number of a shard of the
\* sub-cluster, is that shard, the one SplitShard(id) of the parent returns.
C29_LocalRouting ==
    /\ (OnSubCluster("SubCluster.Shard") /\ call.number \in SubIds(subcl))
          => /\ call.out.shardID = call.number
             /\ call.out = cluster.shards[call.number + 1].shard
    /\ (OnSubCluster("SubCluster.SplitShard")
        /\ SplitID(gen, call.id).shardID \in SubIds(subcl))
          => /\ call.out.shardID = SplitID(gen, call.id).shardID
             /\ call.out = SplitShard(cluster, gen, call.id)

\* The window of shards 2 and 3 of four, and an id made for shard 3.
C29_Witness ==
    /\ OnSubCluster("SubCluster.SplitShard")
    /\ TotalShards = 4
    /\ SubIds(subcl) = {2, 3}
    /\ call.s = 3
    /\ SplitID(gen, call.id).shardID = 3
    /\ call.out.shardID = 3
    /\ call.out = SplitShard(cluster, gen, call.id)

=============================================================================
